---- MODULE Spec2Model ----
(***************************************************************************)
(* Model of the dennis DNS wire codec: the winnow parser (parser.rs), the  *)
(* tokio_util Decoder/Encoder implementations of DnsCodec (codec.rs) and   *)
(* the bit-packed header Flags (message.rs).                               *)
(*                                                                         *)
(* A buffer is a sequence of bytes (0..255); a stream position is the      *)
(* 0-based offset from the start of the buffer, so the byte at offset p is *)
(* buf[p + 1].                                                             *)
(***************************************************************************)
EXTENDS Integers, Sequences, FiniteSets, TLC

\* ------------------------------------------------------------------ bounds
\* Names offered to the encoder carry at most MaxLabels labels.
MaxLabels == 2
\* Each section of a multi-section message offered to the encoder carries at
\* most MaxEntries entries.
MaxEntries == 1
\* Low byte of the crafted two-byte name endings ranges over 0..MaxOffset.
MaxOffset == 34
\* At most MaxTrailing bytes follow an echoed message in a datagram.
MaxTrailing == 2

\* ----------------------------------------------------------- byte helpers
Rep(b, n) == [i \in 1..n |-> b]

Prefix(s, n) == SubSeq(s, 1, n)

Drop(s, n) == SubSeq(s, n + 1, Len(s))

\* ------------------------------------------------------- parser results
\* A winnow PResult: Ok carries the parsed value and the position after it.
\* kind "Backtrack" and "Incomplete" are winnow's ErrMode variants; kind
\* "Overflow" stands for a recursion that never returns (the thread's stack
\* is exhausted and the process aborts).
Ok(v, p) == [kind |-> "Ok", val |-> v, pos |-> p]

Fail(k) == [kind |-> k, val |-> <<>>, pos |-> 0]

\* The `?` operator: an error ends the function, an Ok value goes on.
Try(r, Then(_)) == IF r.kind # "Ok" THEN r ELSE Then(r)

\* A parser followed by an alternative that is tried when it backtracks
\* (alt, and the terminator/element pair of repeat_till).
OrElse(r, Then(_), otherwise) ==
    IF r.kind = "Ok" THEN Then(r)
    ELSE IF r.kind = "Backtrack" THEN otherwise
    ELSE r

\* Located<&[u8]> is built directly on a byte slice, not on Partial<..>: the
\* stream is complete.
is_partial == FALSE

\* What a winnow token parser answers when the stream is too short.
Short == IF is_partial THEN Fail("Incomplete") ELSE Fail("Backtrack")

be_u8(buf, pos) ==
    IF pos + 1 <= Len(buf) THEN Ok(buf[pos + 1], pos + 1) ELSE Short

be_u16(buf, pos) ==
    IF pos + 2 <= Len(buf)
    THEN Ok(buf[pos + 1] * 256 + buf[pos + 2], pos + 2)
    ELSE Short

be_u32(buf, pos) ==
    IF pos + 4 <= Len(buf)
    THEN Ok(((buf[pos + 1] * 256 + buf[pos + 2]) * 256 + buf[pos + 3]) * 256
            + buf[pos + 4], pos + 4)
    ELSE Short

take(buf, pos, n) ==
    IF pos + n <= Len(buf)
    THEN Ok(SubSeq(buf, pos + 1, pos + n), pos + n)
    ELSE Short

\* ---------------------------------------------------------------- UTF-8
\* std::str::from_utf8 accepts exactly the well-formed UTF-8 byte sequences.
Cont(s, i) == i <= Len(s) /\ s[i] >= 128 /\ s[i] <= 191

RECURSIVE utf8_from(_, _)
utf8_from(s, i) ==
    IF i > Len(s) THEN TRUE
    ELSE IF s[i] <= 127 THEN utf8_from(s, i + 1)
    ELSE IF s[i] >= 194 /\ s[i] <= 223
      THEN Cont(s, i + 1) /\ utf8_from(s, i + 2)
    ELSE IF s[i] >= 224 /\ s[i] <= 239
      THEN /\ Cont(s, i + 1) /\ Cont(s, i + 2)
           /\ (s[i] = 224 => s[i + 1] >= 160)
           /\ (s[i] = 237 => s[i + 1] <= 159)
           /\ utf8_from(s, i + 3)
    ELSE IF s[i] >= 240 /\ s[i] <= 244
      THEN /\ Cont(s, i + 1) /\ Cont(s, i + 2) /\ Cont(s, i + 3)
           /\ (s[i] = 240 => s[i + 1] >= 144)
           /\ (s[i] = 244 => s[i + 1] <= 143)
           /\ utf8_from(s, i + 4)
    ELSE FALSE

from_utf8(s) == utf8_from(s, 1)

\* ------------------------------------------------------------- parser.rs
\* length_take(be_u8).try_map(from_utf8): a String is kept as its bytes.
label(buf, pos) ==
    Try(be_u8(buf, pos), LAMBDA n :
    Try(take(buf, n.pos, n.val), LAMBDA d :
    IF from_utf8(d.val) THEN d ELSE Fail("Backtrack")))

\* Option<u16>: None is <<>>, Some(k) is <<k>>.
None == <<>>

Some(k) == <<k>>

\* b"\0": the one byte 0.
nul(buf, pos) ==
    Try(be_u8(buf, pos), LAMBDA z :
    IF z.val = 0 THEN z ELSE Fail("Backtrack"))

\* alt((b"\0".value(None), be_u16.verify(|u| u > &0x3fff).map(|u| Some(u & 0x3fff))))
name_end(buf, pos) ==
    OrElse(nul(buf, pos),
           LAMBDA z : Ok(None, z.pos),
           Try(be_u16(buf, pos), LAMBDA u :
               IF u.val > 16383 THEN Ok(Some(u.val % 16384), u.pos)
               ELSE Fail("Backtrack")))

\* repeat_till(0.., label, name_end): the terminator is tried first, and a
\* label only when the terminator backtracks; an element that consumes
\* nothing ends the loop with an assert error.
RECURSIVE repeat_till(_, _, _)
repeat_till(buf, pos, acc) ==
    OrElse(name_end(buf, pos),
           LAMBDA g : Ok([labels |-> acc, end |-> g.val], g.pos),
           Try(label(buf, pos), LAMBDA f :
               IF f.pos = pos THEN Fail("Cut")
               ELSE repeat_till(buf, f.pos, Append(acc, f.val))))

\* name: on a pointer, a clone of the stream is reset to the start of the
\* buffer, `pointer` bytes are skipped and name is called again; the caller's
\* own position stays after the two pointer bytes.  The code keeps no record
\* of the offsets it is resolving: `chain` is the set of offsets of the calls
\* of name that are active (the call stack).  A call at an offset that is
\* already active repeats the computation that led to it, so the recursion
\* never returns: kind "Overflow".
RECURSIVE name(_, _, _)

\* name without input.reset_to_start(): the pointer is counted from the
\* position after the pointer bytes.
name_relative(buf, pos, chain) ==
    Try(repeat_till(buf, pos, <<>>), LAMBDA r :
    IF r.val.end = None THEN Ok([labels |-> r.val.labels], r.pos)
    ELSE Try(take(buf, r.pos, r.val.end[1]), LAMBDA t :
         Try(name(buf, t.pos, chain \cup {pos}), LAMBDA recursive_name :
         Ok([labels |-> r.val.labels \o recursive_name.val.labels], r.pos))))

name(buf, pos, chain) ==
    Try(repeat_till(buf, pos, <<>>), LAMBDA r :
    IF r.val.end = None THEN Ok([labels |-> r.val.labels], r.pos)
    ELSE Try(take(buf, 0, r.val.end[1]), LAMBDA t :
         IF t.pos \in chain \cup {pos} THEN Fail("Overflow")
         ELSE Try(name(buf, t.pos, chain \cup {pos}), LAMBDA recursive_name :
              Ok([labels |-> r.val.labels \o recursive_name.val.labels],
                 r.pos))))

question(buf, pos) ==
    Try(name(buf, pos, {}), LAMBDA qname :
    Try(be_u16(buf, qname.pos), LAMBDA qtype :
    Try(be_u16(buf, qtype.pos), LAMBDA qclass :
    Ok([qname |-> qname.val, qtype |-> qtype.val, qclass |-> qclass.val],
       qclass.pos))))

resource_record(buf, pos) ==
    Try(name(buf, pos, {}), LAMBDA nm :
    Try(be_u16(buf, nm.pos), LAMBDA type :
    Try(be_u16(buf, type.pos), LAMBDA class :
    Try(be_u32(buf, class.pos), LAMBDA ttl :
    Try(be_u16(buf, ttl.pos), LAMBDA rdlength :
    Try(take(buf, rdlength.pos, rdlength.val), LAMBDA rdata :
    Ok([name |-> nm.val, type |-> type.val, class |-> class.val,
        ttl |-> ttl.val, rdlength |-> rdlength.val, rdata |-> rdata.val],
       rdata.pos)))))))

\* The entry parser a section is repeated with.
parse_next(f, buf, pos) ==
    IF f = "question" THEN question(buf, pos) ELSE resource_record(buf, pos)

\* repeat(count as usize, f): exactly `count` entries, or the first error.
RECURSIVE repeat(_, _, _, _, _)

\* repeat(0..=count, f): the entries that parse, at most `count`.
repeat_upto(count, f, buf, pos, acc) ==
    IF count = 0 THEN Ok(acc, pos)
    ELSE OrElse(parse_next(f, buf, pos),
                LAMBDA o : repeat(count - 1, f, buf, o.pos, Append(acc, o.val)),
                Ok(acc, pos))

repeat(count, f, buf, pos, acc) ==
    IF count = 0 THEN Ok(acc, pos)
    ELSE Try(parse_next(f, buf, pos), LAMBDA o :
         repeat(count - 1, f, buf, o.pos, Append(acc, o.val)))

\* ------------------------------------------------------------ message.rs
\* bitbybit numbers bits from the least significant one: #[bit(n)] is the
\* bit of weight 2^n, #[bits(lo..=hi)] the field (raw >> lo) & (2^(hi-lo+1)-1).
Bit(raw, n) == (raw \div (2 ^ n)) % 2 = 1

Bits(raw, lo, hi) == (raw \div (2 ^ lo)) % (2 ^ (hi - lo + 1))

\* Flags::new_with_raw_value: the fields the accessors of the bitfield expose.
\* opcode and rcode are #[bitenum(u4, exhaustive = false)]: every 4-bit code
\* is representable, a named variant or the bare code.
new_with_raw_value(raw) ==
    [qr     |-> Bit(raw, 0),
     opcode |-> Bits(raw, 1, 4),
     aa     |-> Bit(raw, 5),
     tc     |-> Bit(raw, 6),
     rd     |-> Bit(raw, 7),
     ra     |-> Bit(raw, 8),
     z      |-> Bits(raw, 9, 11),
     rcode  |-> Bits(raw, 12, 15)]

B(b) == IF b THEN 1 ELSE 0

\* raw_value that leaves the reserved bits out.
raw_value_without_z(flags) ==
      B(flags.qr)
    + flags.opcode * (2 ^ 1)
    + B(flags.aa) * (2 ^ 5)
    + B(flags.tc) * (2 ^ 6)
    + B(flags.rd) * (2 ^ 7)
    + B(flags.ra) * (2 ^ 8)
    + flags.rcode * (2 ^ 12)

\* Flags::raw_value: the 16-bit word the fields are packed in.
raw_value(flags) ==
      B(flags.qr)
    + flags.opcode * (2 ^ 1)
    + B(flags.aa) * (2 ^ 5)
    + B(flags.tc) * (2 ^ 6)
    + B(flags.rd) * (2 ^ 7)
    + B(flags.ra) * (2 ^ 8)
    + flags.z * (2 ^ 9)
    + flags.rcode * (2 ^ 12)

\* ------------------------------------------------------ parser.rs (cont.)
header(buf, pos) ==
    Try(be_u16(buf, pos), LAMBDA id :
    Try(be_u16(buf, id.pos), LAMBDA flags :
    Try(be_u16(buf, flags.pos), LAMBDA qd_count :
    Try(be_u16(buf, qd_count.pos), LAMBDA an_count :
    Try(be_u16(buf, an_count.pos), LAMBDA ns_count :
    Try(be_u16(buf, ns_count.pos), LAMBDA ar_count :
    Ok([id |-> id.val, flags |-> new_with_raw_value(flags.val),
        qd_count |-> qd_count.val, an_count |-> an_count.val,
        ns_count |-> ns_count.val, ar_count |-> ar_count.val],
       ar_count.pos)))))))

message(buf, pos) ==
    Try(header(buf, pos), LAMBDA h :
    Try(repeat(h.val.qd_count, "question", buf, h.pos, <<>>), LAMBDA qd :
    Try(repeat(h.val.an_count, "resource_record", buf, qd.pos, <<>>), LAMBDA an :
    Try(repeat(h.val.ns_count, "resource_record", buf, an.pos, <<>>), LAMBDA ns :
    Try(repeat(h.val.ar_count, "resource_record", buf, ns.pos, <<>>), LAMBDA ar :
    Ok([header |-> h.val, question |-> qd.val, answer |-> an.val,
        authority |-> ns.val, additional |-> ar.val], ar.pos))))))

\* -------------------------------------------------------------- codec.rs
\* The value of a decode that returns no message.
NoMessage == <<>>

\* The match of Decoder::decode on the parser's result m: kind "Some" is
\* Ok(Some(message)), "None" is Ok(None), "Err" is Err(io::Error
\* InvalidData); "Overflow" is a call that never returns.  src is the buffer
\* as the call leaves it: advanced by input.offset_from(&start) on success.
\* decode with src.clear() in place of src.advance(..).
decode_match_clear(src, start, m) ==
    IF m.kind = "Ok"
    THEN [kind |-> "Some", message |-> m.val, src |-> <<>>]
    ELSE IF m.kind = "Incomplete"
    THEN [kind |-> "None", message |-> NoMessage, src |-> src]
    ELSE IF m.kind = "Overflow"
    THEN [kind |-> "Overflow", message |-> NoMessage, src |-> src]
    ELSE [kind |-> "Err", message |-> NoMessage, src |-> src]

decode_match(src, start, m) ==
    IF m.kind = "Ok"
    THEN [kind |-> "Some", message |-> m.val, src |-> Drop(src, m.pos - start)]
    ELSE IF m.kind = "Incomplete"
    THEN [kind |-> "None", message |-> NoMessage, src |-> src]
    ELSE IF m.kind = "Overflow"
    THEN [kind |-> "Overflow", message |-> NoMessage, src |-> src]
    ELSE [kind |-> "Err", message |-> NoMessage, src |-> src]

decode(src) == decode_match(src, 0, message(src, 0))

\* BufMut::put_u8 / put_u16 / put_u32 / put: big-endian appends.
put_u8(dst, v) == Append(dst, v)

put_u16(dst, v) == dst \o <<v \div 256, v % 256>>

put_u32(dst, v) ==
    dst \o <<v \div 16777216, (v \div 65536) % 256, (v \div 256) % 256, v % 256>>

put(dst, bytes) == dst \o bytes

\* An encode answers Ok(()) (kind "Ok"), Err (kind "Err") or panics (kind
\* "Panic"); dst is the output buffer as the call leaves it.
Done(k, dst) == [kind |-> k, dst |-> dst]

\* The body of the for_each closure of Encoder<Name>, label after label:
\* label.len().try_into().unwrap() panics when the length is no u8.
RECURSIVE EncodeLabels(_, _)
EncodeLabels(labels, dst) ==
    IF labels = <<>> THEN Done("Ok", dst)
    ELSE IF Len(Head(labels)) > 255 THEN Done("Panic", dst)
    ELSE EncodeLabels(Tail(labels),
                      put(put_u8(dst, Len(Head(labels))), Head(labels)))

\* Encoder<Name> without the closing dst.put_u8(0).
EncodeName_unterminated(item, dst) == EncodeLabels(item.labels, dst)

EncodeName(item, dst) ==
    Try(EncodeLabels(item.labels, dst), LAMBDA l :
    Done("Ok", put_u8(l.dst, 0)))

EncodeHeader(item, dst) ==
    Done("Ok",
         put_u16(put_u16(put_u16(put_u16(put_u16(put_u16(dst,
             item.id), raw_value(item.flags)), item.qd_count),
             item.an_count), item.ns_count), item.ar_count))

EncodeQuestion(item, dst) ==
    Try(EncodeName(item.qname, dst), LAMBDA n :
    Done("Ok", put_u16(put_u16(n.dst, item.qtype), item.qclass)))

EncodeResourceRecord(item, dst) ==
    Try(EncodeName(item.name, dst), LAMBDA n :
    Done("Ok",
         put(put_u16(put_u32(put_u16(put_u16(n.dst,
             item.type), item.class), item.ttl), item.rdlength),
             item.rdata)))

EncodeEntry(f, item, dst) ==
    IF f = "question" THEN EncodeQuestion(item, dst)
    ELSE EncodeResourceRecord(item, dst)

\* One `for x in section { self.encode(x, dst)?; }` loop.
RECURSIVE EncodeEach(_, _, _)
EncodeEach(f, items, dst) ==
    IF items = <<>> THEN Done("Ok", dst)
    ELSE Try(EncodeEntry(f, Head(items), dst), LAMBDA e :
         EncodeEach(f, Tail(items), e.dst))

EncodeMessage(item, dst) ==
    Try(EncodeHeader(item.header, dst), LAMBDA h :
    Try(EncodeEach("question", item.question, h.dst), LAMBDA qd :
    Try(EncodeEach("resource_record", item.answer, qd.dst), LAMBDA an :
    Try(EncodeEach("resource_record", item.authority, an.dst), LAMBDA ns :
    EncodeEach("resource_record", item.additional, ns.dst)))))

\* ------------------------------------------------------------------ state
VARIABLES
    pc,       \* "idle", "sent", "panicked", "received", "decoded", "aborted"
    item,     \* the Message handed to Encoder<Message>::encode
    dst,      \* the output buffer of encode
    encoded,  \* how encode ended: "Ok", "Err" or "Panic"
    rx,       \* the datagram as it arrived (src when decode is called)
    src,      \* the input buffer of decode
    decoded,  \* what decode returned: [kind, message]
    fpc,      \* header round trip: "bytes", "parsed", "encoded"
    hbytes,   \* the 12 header bytes parser::header is given
    hdr,      \* the Header parsed from hbytes
    hout      \* the bytes Encoder<Header>::encode wrote for hdr

vars == <<pc, item, dst, encoded, rx, src, decoded, fpc, hbytes, hdr, hout>>

codecVars == <<pc, item, dst, encoded, rx, src, decoded>>

flagVars == <<fpc, hbytes, hdr, hout>>

\* ----------------------------------------------------------------- inputs
\* All sequences over S of length at most n.
SeqUpTo(S, n) == UNION {[1..k -> S] : k \in 0..n}

\* Label lengths on both sides of what one length byte can carry, of what
\* name_end takes for a label, and the empty label.
LabelLens == {0, 1, 63, 64, 256}

\* Labels are Strings, kept as their UTF-8 bytes: runs of "a".
Labels == {Rep(97, n) : n \in LabelLens}

Names == {[labels |-> l] : l \in SeqUpTo(Labels, MaxLabels)}

Header(id, raw, qd, an, ns, ar) ==
    [id |-> id, flags |-> new_with_raw_value(raw), qd_count |-> qd,
     an_count |-> an, ns_count |-> ns, ar_count |-> ar]

Question(nm, qtype, qclass) == [qname |-> nm, qtype |-> qtype, qclass |-> qclass]

ResourceRecord(nm, type, class, ttl, rdlength, rdata) ==
    [name |-> nm, type |-> type, class |-> class, ttl |-> ttl,
     rdlength |-> rdlength, rdata |-> rdata]

\* A query for one name, with or without one answer for the same name (the
\* message of examples/client.rs, its name varied).
NameMessages ==
    {[header |-> Header(4660, 256, 1, k, 0, 0),
      question |-> <<Question(nm, 1, 1)>>,
      answer |-> IF k = 1
                 THEN <<ResourceRecord(nm, 16, 1, 270, 2, <<15, 118>>)>>
                 ELSE <<>>,
      authority |-> <<>>,
      additional |-> <<>>] : nm \in Names, k \in {0, 1}}

NameA == [labels |-> <<<<97>>>>]

NameBC == [labels |-> <<<<98>>, <<99>>>>]

\* Messages with up to MaxEntries entries in every section, the header
\* counts in step; each section has an entry of its own.
SectionMessages ==
    {[header |-> Header(4146, 33152, qd, an, ns, ar),
      question |-> Rep(Question(NameA, 16, 1), qd),
      answer |-> Rep(ResourceRecord(NameA, 16, 1, 270, 2, <<15, 118>>), an),
      authority |-> Rep(ResourceRecord(NameBC, 2, 1, 0, 0, <<>>), ns),
      additional |-> Rep(ResourceRecord(NameBC, 1, 1, 300, 4, <<10, 0, 0, 1>>), ar)] :
        qd \in 0..MaxEntries, an \in 0..MaxEntries,
        ns \in 0..MaxEntries, ar \in 0..MaxEntries}

\* Messages built by hand with a count out of step (the encoder does not
\* verify them): one question more declared than present, an rdlength one
\* more than the rdata holds; and a query for "é.a".
OddMessages ==
    {[header |-> Header(4660, 256, 2, 0, 0, 0),
      question |-> <<Question(NameA, 1, 1)>>,
      answer |-> <<>>, authority |-> <<>>, additional |-> <<>>],
     [header |-> Header(4660, 256, 1, 1, 0, 0),
      question |-> <<Question(NameA, 1, 1)>>,
      answer |-> <<ResourceRecord(NameA, 1, 1, 0, 2, <<15>>)>>,
      authority |-> <<>>, additional |-> <<>>],
     [header |-> Header(4660, 256, 1, 0, 0, 0),
      question |-> <<Question([labels |-> <<<<195, 169>>, <<97>>>>], 1, 1)>>,
      answer |-> <<>>, authority |-> <<>>, additional |-> <<>>]}

Messages == NameMessages \cup SectionMessages \cup OddMessages

\* The two captures of the tests of parser.rs (parse_query, parse_response).
TestQuery ==
    <<16, 50, 1, 0, 0, 1, 0, 0, 0, 0, 0, 0, 6, 103, 111, 111,
      103, 108, 101, 3, 99, 111, 109, 0, 0, 16, 0, 1>>

TestResponse ==
    <<16, 50, 129, 128, 0, 1, 0, 1, 0, 0, 0, 0, 6, 103, 111, 111,
      103, 108, 101, 3, 99, 111, 109, 0, 0, 16, 0, 1, 192, 12, 0, 16,
      0, 1, 0, 0, 1, 14, 0, 16, 15, 118, 61, 115, 112, 102, 49, 32,
      112, 116, 114, 32, 63, 97, 108, 108>>

\* type 16, class 1, ttl 270, rdlength 0: the fixed part of a record.
RecordTail == <<0, 16, 0, 1, 0, 0, 1, 14, 0, 0>>

\* A response with one question (name "a" at offset 12) and two answers.
\* The first answer's name (offset 19) is a pointer to offset p1; the
\* second's (offset 31) is the labels `pre` followed by the two bytes hi, lo.
PointerDatagram(p1, pre, hi, lo) ==
    <<16, 50, 129, 128, 0, 1, 0, 2, 0, 0, 0, 0>>
    \o <<1, 97, 0, 0, 16, 0, 1>>
    \o <<192, p1>> \o RecordTail
    \o pre \o <<hi, lo>> \o RecordTail

\* First bytes 0x3f, 0x40, 0x80, 0xc0, 0xc1 of the two-byte ending.
EndingHi == {63, 64, 128, 192, 193}

PointerDatagrams ==
    {PointerDatagram(p1, pre, hi, lo) :
        p1 \in {12, 31}, pre \in {<<>>, <<1, 98>>},
        hi \in EndingHi, lo \in 0..MaxOffset}

\* A query whose only name is the one label `l`.
LabelDatagram(l) ==
    <<16, 50, 1, 0, 0, 1, 0, 0, 0, 0, 0, 0>>
    \o <<Len(l)>> \o l \o <<0, 0, 16, 0, 1>>

\* Well-formed and ill-formed UTF-8 label payloads.
LabelPayloads ==
    {<<195, 169>>, <<255>>, <<195>>, <<224, 128, 128>>, <<237, 160, 128>>,
     <<226, 130, 172>>, <<240, 159, 146, 169>>, <<128>>}

Datagrams ==
    {TestQuery, TestResponse, TestResponse \o <<0, 7>>}
    \cup PointerDatagrams
    \cup {LabelDatagram(l) : l \in LabelPayloads}

\* ---------------------------------------------------------------- actions
Unset == [kind |-> "Unset", message |-> NoMessage]

InitCodec ==
    /\ pc = "idle"
    /\ item = NoMessage
    /\ dst = <<>>
    /\ encoded = "Unset"
    /\ rx = <<>>
    /\ src = <<>>
    /\ decoded = Unset

\* The state an encode that ended as e leaves: a panic unwinds out of the
\* caller.
EncodeResult(e) ==
    /\ dst' = e.dst
    /\ encoded' = e.kind
    /\ pc' = IF e.kind = "Panic" THEN "panicked" ELSE "sent"

\* The state a decode that ended as r leaves.
DecodeResult(r) ==
    /\ decoded' = [kind |-> r.kind, message |-> r.message]
    /\ src' = r.src
    /\ pc' = IF r.kind = "Overflow" THEN "aborted" ELSE "decoded"

\* DnsCodec::encode(item, dst) of some message on an empty output buffer.
Encode ==
    /\ pc = "idle"
    /\ \E m \in Messages :
        /\ item' = m
        /\ EncodeResult(EncodeMessage(m, <<>>))
    /\ UNCHANGED <<rx, src, decoded, flagVars>>

Trailing == {Rep(0, k) : k \in 0..MaxTrailing}

\* The datagrams an encoded message can come back as: cut after n bytes, or
\* whole and followed by some bytes.
Echoes(bytes) ==
    {Prefix(bytes, n) : n \in 0..Len(bytes)} \cup {bytes \o t : t \in Trailing}

\* The encoded message comes back as a datagram.
RecvEcho ==
    /\ pc = "sent"
    /\ \E d \in Echoes(dst) :
        /\ rx' = d
        /\ src' = d
    /\ pc' = "received"
    /\ UNCHANGED <<item, dst, encoded, decoded, flagVars>>

\* A datagram somebody else wrote arrives.
RecvDatagram ==
    /\ pc = "idle"
    /\ \E d \in Datagrams :
        /\ rx' = d
        /\ src' = d
    /\ pc' = "received"
    /\ UNCHANGED <<item, dst, encoded, decoded, flagVars>>

\* DnsCodec::decode(src).
Decode ==
    /\ pc = "received"
    /\ DecodeResult(decode(src))
    /\ UNCHANGED <<item, dst, encoded, rx, flagVars>>

Init ==
    /\ InitCodec
    /\ fpc = "bytes"
    /\ hbytes = <<>>
    /\ hdr = <<>>
    /\ hout = <<>>

Next == Encode \/ RecvEcho \/ RecvDatagram \/ Decode

Spec == Init /\ [][Next]_vars

\* ------------------------------------------------- header flags round trip
\* Every 16-bit flags word, in the header of the query of the tests.
HeaderBytes == {<<16, 50, raw \div 256, raw % 256, 0, 1, 0, 0, 0, 0, 0, 0>> :
                   raw \in 0..65535}

InitFlags ==
    /\ InitCodec
    /\ fpc = "bytes"
    /\ hbytes \in HeaderBytes
    /\ hdr = <<>>
    /\ hout = <<>>

\* parser::header on the 12 bytes.
ParseHeader ==
    /\ fpc = "bytes"
    /\ hdr' = header(hbytes, 0).val
    /\ fpc' = "parsed"
    /\ UNCHANGED <<hbytes, hout, codecVars>>

\* Encoder<Header>::encode of the parsed header into an empty buffer.
EncodeHeaderStep ==
    /\ fpc = "parsed"
    /\ hout' = EncodeHeader(hdr, <<>>).dst
    /\ fpc' = "encoded"
    /\ UNCHANGED <<hbytes, hdr, codecVars>>

NextFlags == ParseHeader \/ EncodeHeaderStep

SpecFlags == InitFlags /\ [][NextFlags]_vars

\* ------------------------------------------------------- claim vocabulary
\* The names of a message, section after section.
RECURSIVE NamesIn(_, _)
NamesIn(entries, field) ==
    IF entries = <<>> THEN <<>>
    ELSE <<IF field = "qname" THEN Head(entries).qname ELSE Head(entries).name>>
         \o NamesIn(Tail(entries), field)

NamesOf(m) ==
    NamesIn(m.question, "qname") \o NamesIn(m.answer, "name")
    \o NamesIn(m.authority, "name") \o NamesIn(m.additional, "name")

\* Every label of every name of m.
AllLabels(m) ==
    UNION {{NamesOf(m)[i].labels[j] : j \in 1..Len(NamesOf(m)[i].labels)} :
              i \in 1..Len(NamesOf(m))}

Records(m) == m.answer \o m.authority \o m.additional

\* Consistent header counts and rdlengths.
Consistent(m) ==
    /\ Len(m.question) = m.header.qd_count
    /\ Len(m.answer) = m.header.an_count
    /\ Len(m.authority) = m.header.ns_count
    /\ Len(m.additional) = m.header.ar_count
    /\ \A i \in 1..Len(Records(m)) :
          Records(m)[i].rdlength = Len(Records(m)[i].rdata)

\* Every label is 1 to 63 bytes long.
LabelsFit(m) == \A l \in AllLabels(m) : Len(l) >= 1 /\ Len(l) <= 63

\* A decode has been called and has ended, by a return or by the abort.
Decoded == pc \in {"decoded", "aborted"}

\* The datagram decoded is the whole output of an encode that returned Ok.
Echoed == encoded = "Ok" /\ rx = dst

\* The wire format of a name read at offset pos, label by label: labels of
\* 1 to 63 bytes up to a zero byte (end "nul") or up to a byte of 64 or more
\* and the byte after it (end "two", the bytes hi and lo); next is the offset
\* after the name's own bytes.
RECURSIVE Scan(_, _, _)
Scan(buf, pos, acc) ==
    IF pos >= Len(buf)
    THEN [end |-> "short", labels |-> acc, hi |-> 0, lo |-> 0, next |-> pos]
    ELSE IF buf[pos + 1] = 0
    THEN [end |-> "nul", labels |-> acc, hi |-> 0, lo |-> 0, next |-> pos + 1]
    ELSE IF buf[pos + 1] >= 64
    THEN IF pos + 2 <= Len(buf)
         THEN [end |-> "two", labels |-> acc, hi |-> buf[pos + 1],
               lo |-> buf[pos + 2], next |-> pos + 2]
         ELSE [end |-> "short", labels |-> acc, hi |-> 0, lo |-> 0, next |-> pos]
    ELSE IF pos + 1 + buf[pos + 1] <= Len(buf)
            /\ from_utf8(SubSeq(buf, pos + 2, pos + 1 + buf[pos + 1]))
    THEN Scan(buf, pos + 1 + buf[pos + 1],
              Append(acc, SubSeq(buf, pos + 2, pos + 1 + buf[pos + 1])))
    ELSE [end |-> "bad", labels |-> acc, hi |-> 0, lo |-> 0, next |-> pos]

\* The name at pos is labels followed by a compression pointer (top two
\* bits 11); PointerTarget is the pointer's 14-bit offset.
EndsInPointer(buf, pos) ==
    Scan(buf, pos, <<>>).end = "two" /\ Scan(buf, pos, <<>>).hi >= 192

PointerTarget(buf, pos) ==
    (Scan(buf, pos, <<>>).hi - 192) * 256 + Scan(buf, pos, <<>>).lo

\* Following the compression pointers from the name at pos comes back to an
\* offset already visited.
RECURSIVE Revisits(_, _, _)
Revisits(buf, pos, seen) ==
    /\ EndsInPointer(buf, pos)
    /\ \/ PointerTarget(buf, pos) \in seen \cup {pos}
       \/ Revisits(buf, PointerTarget(buf, pos), seen \cup {pos})

\* The offset after the entry of kind f that starts at pos: the name's own
\* bytes, then 4 fixed bytes (question) or 10 fixed bytes and rdlength bytes
\* of rdata (resource record).
EntryEnd(f, buf, pos) ==
    IF f = "question" THEN Scan(buf, pos, <<>>).next + 4
    ELSE Scan(buf, pos, <<>>).next + 10
         + buf[Scan(buf, pos, <<>>).next + 9] * 256
         + buf[Scan(buf, pos, <<>>).next + 10]

\* The offsets at which the entries of the kinds `kinds` start when they
\* follow each other from pos, and the offset after the last one.
RECURSIVE Offsets(_, _, _)
Offsets(buf, pos, kinds) ==
    IF kinds = <<>> THEN <<pos>>
    ELSE <<pos>> \o Offsets(buf, EntryEnd(Head(kinds), buf, pos), Tail(kinds))

\* The kinds of the entries a header declares, in section order.
KindsOf(h) ==
    Rep("question", h.qd_count)
    \o Rep("resource_record", h.an_count + h.ns_count + h.ar_count)

\* The entries of a message, in section order.
EntriesOf(m) == m.question \o m.answer \o m.authority \o m.additional

\* The 16-bit flags word of 12 header bytes.
FlagsWord(bytes) == bytes[3] * 256 + bytes[4]

\* ------------------------------------------------------------------ claims
\* C1 (as stated): for every Message with consistent header counts and
\* rdlengths, decode of the buffer that encode wrote for it, starting from
\* an empty buffer, returns Some(m') with m' = m.
C1_RoundTrip ==
    (Decoded /\ Echoed /\ Consistent(item))
    => decoded = [kind |-> "Some", message |-> item]

\* C1 (amended): the round trip holds for every Message with consistent
\* header counts and rdlengths whose labels are all 1 to 63 bytes long.
C1_RoundTripLabelsFit ==
    /\ pc = "panicked" => ~(Consistent(item) /\ LabelsFit(item))
    /\ (Decoded /\ Echoed /\ Consistent(item) /\ LabelsFit(item))
         => decoded = [kind |-> "Some", message |-> item]

\* A message with a 63-byte label in the question and in an answer has made
\* the round trip.
C1_Witness ==
    /\ pc = "decoded" /\ Echoed
    /\ Consistent(item) /\ LabelsFit(item)
    /\ Len(item.answer) = 1
    /\ Rep(97, 63) \in AllLabels(item)
    /\ decoded.kind = "Some" /\ decoded.message = item

\* C2: in a decoded datagram, a name that is the labels L followed by a compression pointer to
\* offset k resolves exactly when the name at absolute offset k resolves, to
\* L followed by the labels of the name at k, wherever the pointer stands.
C2_PointerResolution ==
    Decoded
    => \A pos \in 0..Len(rx) :
        EndsInPointer(rx, pos)
        => IF name(rx, PointerTarget(rx, pos), {}).kind = "Ok"
           THEN /\ name(rx, pos, {}).kind = "Ok"
                /\ name(rx, pos, {}).val.labels
                     = Scan(rx, pos, <<>>).labels
                       \o name(rx, PointerTarget(rx, pos), {}).val.labels
           ELSE name(rx, pos, {}).kind # "Ok"

\* The second answer's name, "b" and a pointer to offset 19, where a pointer
\* to "a" at offset 12 stands, has been decoded as b.a.
C2_Witness ==
    /\ pc = "decoded"
    /\ rx = PointerDatagram(12, <<1, 98>>, 192, 19)
    /\ decoded.kind = "Some"
    /\ decoded.message.answer[2].name = [labels |-> <<<<98>>, <<97>>>>]

\* C3: when following the compression pointers from a name of the buffer
\* revisits an offset, the decode returns and resolving that name ends with
\* a parse error (Malformed).
C3_CycleSafety ==
    Decoded
    => \A pos \in 0..Len(rx) :
          Revisits(rx, pos, {})
          => (pc = "decoded" /\ name(rx, pos, {}).kind = "Backtrack")

\* C4: the decode of a proper prefix of a valid encoded message returns
\* Ok(None).
C4_IncompleteClassification ==
    (/\ Decoded /\ encoded = "Ok"
     /\ Consistent(item) /\ LabelsFit(item)
     /\ Len(rx) < Len(dst) /\ rx = Prefix(dst, Len(rx)))
    => (pc = "decoded" /\ decoded.kind = "None")

\* C5: a returned Message carries in each section as many entries as the
\* header read from the buffer declares, and its entries are the ones that
\* follow each other in the buffer from offset 12, questions first.
C5_SectionCounts ==
    (pc = "decoded" /\ decoded.kind = "Some")
    => /\ decoded.message.header = header(rx, 0).val
       /\ Len(decoded.message.question) = decoded.message.header.qd_count
       /\ Len(decoded.message.answer) = decoded.message.header.an_count
       /\ Len(decoded.message.authority) = decoded.message.header.ns_count
       /\ Len(decoded.message.additional) = decoded.message.header.ar_count
       /\ \A i \in 1..Len(KindsOf(decoded.message.header)) :
             EntriesOf(decoded.message)[i]
               = parse_next(KindsOf(decoded.message.header)[i], rx,
                            Offsets(rx, 12, KindsOf(decoded.message.header))[i]).val

\* A message with an entry in each of the four sections has been decoded.
C5_Witness ==
    /\ pc = "decoded" /\ decoded.kind = "Some"
    /\ decoded.message.header.qd_count = 1
    /\ decoded.message.header.an_count = 1
    /\ decoded.message.header.ns_count = 1
    /\ decoded.message.header.ar_count = 1
    /\ Len(EntriesOf(decoded.message)) = 4

\* C6: a decode that returns Some(message) leaves the buffer without the
\* bytes of the header and of the entries' own encodings (two bytes for a
\* pointer) and with every byte after them; any other decode leaves the
\* buffer as it was.
C6_BufferEffect ==
    /\ (pc = "decoded" /\ decoded.kind = "Some")
       => src = Drop(rx, Offsets(rx, 12, KindsOf(decoded.message.header))
                           [Len(KindsOf(decoded.message.header)) + 1])
    /\ (Decoded /\ decoded.kind # "Some") => src = rx

\* The response of the tests, its answer's name a pointer, followed by two
\* more bytes, has been decoded: the two bytes are what is left.
C6_Witness ==
    /\ pc = "decoded" /\ decoded.kind = "Some"
    /\ rx = TestResponse \o <<0, 7>>
    /\ src = <<0, 7>>

\* C7: the encode of a Message with a label longer than 255 bytes returns an
\* error; it does not panic.
C7_EncodeLongLabel ==
    (encoded # "Unset" /\ \E l \in AllLabels(item) : Len(l) > 255)
    => encoded = "Err"

\* C8: the Flags of a raw value expose qr as its most significant bit, then
\* opcode (4 bits), aa, tc, rd, ra, the 3 reserved bits, and rcode as the 4
\* least significant bits.
C8_FlagsLayout ==
    fpc # "bytes"
    => /\ hdr.flags.qr = (FlagsWord(hbytes) \div 32768 = 1)
       /\ hdr.flags.opcode = (FlagsWord(hbytes) \div 2048) % 16
       /\ hdr.flags.aa = ((FlagsWord(hbytes) \div 1024) % 2 = 1)
       /\ hdr.flags.tc = ((FlagsWord(hbytes) \div 512) % 2 = 1)
       /\ hdr.flags.rd = ((FlagsWord(hbytes) \div 256) % 2 = 1)
       /\ hdr.flags.ra = ((FlagsWord(hbytes) \div 128) % 2 = 1)
       /\ hdr.flags.z = (FlagsWord(hbytes) \div 16) % 8
       /\ hdr.flags.rcode = FlagsWord(hbytes) % 16

\* C9: the Flags unpacked from a raw value pack to the same value, and a
\* header parsed from bytes and encoded again carries the same flags word.
C9_FlagsRoundTrip ==
    /\ fpc # "bytes" => raw_value(hdr.flags) = FlagsWord(hbytes)
    /\ fpc = "encoded" => hout = hbytes

\* A flags word with an unnamed opcode, an unnamed rcode and reserved bits
\* set has been parsed and encoded again.
C9_Witness ==
    /\ fpc = "encoded"
    /\ hdr.flags.opcode > 2 /\ hdr.flags.rcode > 5 /\ hdr.flags.z # 0
    /\ hout = hbytes

\* C10: the two bytes at the end of a name of a decoded message that were
\* followed as a compression pointer have the top two bits of the first byte
\* both set.
C10_PointerDetection ==
    (pc = "decoded" /\ decoded.kind = "Some")
    => \A i \in 1..Len(KindsOf(decoded.message.header)) :
          Scan(rx, Offsets(rx, 12, KindsOf(decoded.message.header))[i], <<>>).end
            = "two"
          => Scan(rx, Offsets(rx, 12, KindsOf(decoded.message.header))[i], <<>>).hi
               >= 192

====
